---- MODULE Spec2Model ----
(***************************************************************************)
(* sqlakeyset/nulls.py: NULL ordering for keyset pagination.               *)
(*                                                                         *)
(* Three pure functions are modelled: is_nulls_last_default (the vendor    *)
(* table lookup), build_comparison (the flag/value expansion of one sort   *)
(* column) and _might_be_nullable (the nullability probe).  A state is one *)
(* call: its arguments, and, once the call has run, its outcome.           *)
(*                                                                         *)
(* Python's None is the empty sequence and a present value v is <<v>>.     *)
(***************************************************************************)
EXTENDS Integers, Sequences, FiniteSets, TLC

VARIABLES pc, op, args, out

vars == <<pc, op, args, out>>

None == <<>>

Some(v) == <<v>>

-----------------------------------------------------------------------------
(* Bounds of the model. *)

\* column values range over 0..MaxVal, plus None
MaxVal == 2

\* a sort spec has 1..MaxCols columns
MaxCols == 2

-----------------------------------------------------------------------------
(* Input domains. *)

Values == {None} \cup {Some(v) : v \in 0..MaxVal}

\* dialect.name of the dialects handed in: the five of the table, one the
\* table does not know, and a dialect whose name is the empty string
DialectNames == {"postgresql", "oracle", "mysql", "mssql", "sqlite", "unknownsql", ""}

\* dialect=None, or a dialect object with a name
Dialects == {None} \cup {Some(n) : n \in DialectNames}

\* nullslast=None, True or False
NullsLastArgs == {None, Some(TRUE), Some(FALSE)}

\* columnexpr.type.process_bind_param: "absent" is a type without the
\* attribute; the others are behaviours of a custom type's hook
Processors == {"absent", "identity", "reject", "strict", "coalesce", "nullify", "bydialect"}

-----------------------------------------------------------------------------
(* is_nulls_last_default *)

\* the table with the mysql entry wrong
NULLS_LAST_FOR_ASC_BY_DEFAULT_MysqlLast ==
    ("postgresql" :> TRUE) @@ ("oracle" :> TRUE) @@ ("mysql" :> TRUE)
        @@ ("mssql" :> FALSE) @@ ("sqlite" :> FALSE)

NULLS_LAST_FOR_ASC_BY_DEFAULT ==
    ("postgresql" :> TRUE) @@ ("oracle" :> TRUE) @@ ("mysql" :> FALSE)
        @@ ("mssql" :> FALSE) @@ ("sqlite" :> FALSE)

\* dialect and dialect.name or None
DialectKey(dialect) ==
    IF dialect # None /\ dialect[1] # "" THEN Some(dialect[1]) ELSE None

\* NULLS_LAST_FOR_ASC_BY_DEFAULT.get(key)
TableGet(key) ==
    IF key # None /\ key[1] \in DOMAIN NULLS_LAST_FOR_ASC_BY_DEFAULT
    THEN Some(NULLS_LAST_FOR_ASC_BY_DEFAULT[key[1]])
    ELSE None

\* the lookup with the fallback taken silently
is_nulls_last_default_Silent(dialect) ==
    LET v == TableGet(DialectKey(dialect)) IN
    IF v = None
    THEN IF dialect = None
         THEN [err |-> "AttributeError", ret |-> None, warns |-> 0]
         ELSE [err |-> "none", ret |-> Some(FALSE), warns |-> 0]
    ELSE [err |-> "none", ret |-> v, warns |-> 0]

\* The outcome of a call: err is "none" or the exception that left the
\* function, ret the returned boolean (None when it raised), warns the
\* number of warn() calls made.
is_nulls_last_default(dialect) ==
    LET v == TableGet(DialectKey(dialect)) IN
    IF v = None
    THEN IF dialect = None
         \* the message f-string reads dialect.name before warn() runs
         THEN [err |-> "AttributeError", ret |-> None, warns |-> 0]
         ELSE [err |-> "none", ret |-> Some(FALSE), warns |-> 1]
    ELSE [err |-> "none", ret |-> v, warns |-> 0]

-----------------------------------------------------------------------------
(* build_comparison *)

\* the value of cast('0', columnexpr.type) in the column's domain
BlankValue == 0

\* Terms of a pair.  "lit" is a bound Python value x; "cast0" is BLANK;
\* "flag" is case([(col == None, x)], else_=y); "value" is
\* case([(col == None, BLANK)], else_=col).
Lit(n) == [kind |-> "lit", col |-> 0, x |-> n, y |-> n]

Blank(c) == [kind |-> "cast0", col |-> c, x |-> BlankValue, y |-> BlankValue]

CaseFlag(c, null, notnull) == [kind |-> "flag", col |-> c, x |-> null, y |-> notnull]

CaseValue(c) == [kind |-> "value", col |-> c, x |-> BlankValue, y |-> BlankValue]

\* What a term evaluates to on a row (row[c] is the row's value in column
\* c): the engine's reading of the case and cast expressions.
EvalTerm(t, row) ==
    CASE t.kind = "lit" -> t.x
      [] t.kind = "cast0" -> BlankValue
      [] t.kind = "flag" -> IF row[t.col] = None THEN t.x ELSE t.y
      [] t.kind = "value" -> IF row[t.col] = None THEN BlankValue ELSE row[t.col][1]

\* processor(value, dialect) for each behaviour of the hook:
\*   absent, identity  pass the value through
\*   reject            raises for every value
\*   strict            raises for None
\*   coalesce          binds None as 0
\*   nullify           binds 0 as None
\*   bydialect         binds every non-null value as 0 on sqlite
ProcessBindParam(proc, value, dialect) ==
    CASE proc = "reject" -> [err |-> "ProcessorError", v |-> None]
      [] proc = "strict" ->
            IF value = None THEN [err |-> "ProcessorError", v |-> None]
            ELSE [err |-> "none", v |-> value]
      [] proc = "coalesce" ->
            [err |-> "none", v |-> IF value = None THEN Some(0) ELSE value]
      [] proc = "nullify" ->
            [err |-> "none", v |-> IF value = Some(0) THEN None ELSE value]
      [] proc = "bydialect" ->
            [err |-> "none",
             v |-> IF value # None /\ dialect = Some("sqlite") THEN Some(0) ELSE value]
      [] OTHER -> [err |-> "none", v |-> value]

\* the resolution with the explicit nullslast ignored
ResolveNullsLast_AlwaysPolicy(dialect, nullslast) ==
    LET r == is_nulls_last_default(dialect) IN
    [err |-> r.err, nullslast |-> r.ret, warns |-> r.warns, policy |-> 1]

\* if nullslast is None: nullslast = is_nulls_last_default(dialect)
ResolveNullsLast(dialect, nullslast) ==
    IF nullslast = None
    THEN LET r == is_nulls_last_default(dialect) IN
         [err |-> r.err, nullslast |-> r.ret, warns |-> r.warns, policy |-> 1]
    ELSE [err |-> "none", nullslast |-> nullslast, warns |-> 0, policy |-> 0]

\* the ranks the wrong way round
Ranks_Inverted(nullslast) == IF nullslast THEN <<0, 1>> ELSE <<1, 0>>

\* null, notnull = (1, 0) if nullslast else (0, 1)
Ranks(nullslast) == IF nullslast THEN <<1, 0>> ELSE <<0, 1>>

\* [flag_col, val_col]
RowSide(c, ranks) == <<CaseFlag(c, ranks[1], ranks[2]), CaseValue(c)>>

\* the target side with flag_val the wrong way round
TargetSide_FlagInverted(c, ranks, value) ==
    << Lit(IF value = None THEN ranks[2] ELSE ranks[1]),
       IF value = None THEN Blank(c) ELSE Lit(value[1]) >>

\* [flag_val, val_val], from the processed value
TargetSide(c, ranks, value) ==
    << Lit(IF value = None THEN ranks[1] ELSE ranks[2]),
       IF value = None THEN Blank(c) ELSE Lit(value[1]) >>

\* the transposition left out
Transpose_Never(col, val, ascending) == [col |-> col, val |-> val]

\* if not ascending: col, val = val, col
Transpose(col, val, ascending) ==
    IF ascending THEN [col |-> col, val |-> val] ELSE [col |-> val, val |-> col]

Raised(e, warns, policy) ==
    [err |-> e, warns |-> warns, policy |-> policy, col |-> <<>>, val |-> <<>>]

\* column is [id, proc].  The outcome: err, the warn() calls made, the
\* number of times the policy was consulted, and the two pairs returned
\* (empty when the call raised).
build_comparison(column, value, dialect, nullslast, ascending) ==
    LET n == ResolveNullsLast(dialect, nullslast) IN
    IF n.err # "none" THEN Raised(n.err, n.warns, n.policy)
    ELSE
    LET p == ProcessBindParam(column.proc, value, dialect) IN
    IF p.err # "none" THEN Raised(p.err, n.warns, n.policy)
    ELSE
    LET ranks == Ranks(n.nullslast[1])
        t == Transpose(RowSide(column.id, ranks),
                       TargetSide(column.id, ranks, p.v), ascending)
    IN [err |-> "none", warns |-> n.warns, policy |-> n.policy,
        col |-> t.col, val |-> t.val]

-----------------------------------------------------------------------------
(* _might_be_nullable *)

\* What reading x.nullable gives: a truth value or the exception raised.
NullableReads == {"True", "False", "AttributeError", "TypeError"}

\* What reading x.property.columns[0].nullable gives: a truth value, or
\* AttributeError (no property, no columns, no nullable on the column),
\* IndexError (empty list), KeyError (a mapping without 0), TypeError
\* (columns is not subscriptable).
PropertyReads == {"True", "False", "AttributeError", "IndexError", "KeyError", "TypeError"}

Descriptors == [nullable : NullableReads, property : PropertyReads]

Caught == {"AttributeError", "IndexError", "KeyError"}

_might_be_nullable(x) ==
    IF x.nullable \notin {"True", "False"}
    THEN IF x.nullable \in Caught
         THEN [err |-> "none", ret |-> Some(FALSE)]
         ELSE [err |-> x.nullable, ret |-> None]
    ELSE IF x.nullable = "False"
    \* not x.nullable
    THEN [err |-> "none", ret |-> Some(TRUE)]
    ELSE IF x.property \notin {"True", "False"}
    THEN IF x.property \in Caught
         THEN [err |-> "none", ret |-> Some(FALSE)]
         ELSE [err |-> x.property, ret |-> None]
    ELSE [err |-> "none", ret |-> Some(x.property = "True")]

-----------------------------------------------------------------------------
(* The calls. *)

Columns == [id : {1}, proc : Processors]

PolicyCalls == [dialect : Dialects]

ComparisonCalls ==
    [column : Columns, value : Values, dialect : Dialects,
     nullslast : NullsLastArgs, ascending : BOOLEAN]

NullableCalls == [x : Descriptors]

\* One column of a sort spec with the values of the scanned row and of the
\* reference row in it: direction, resolved nulls-last flag.
OrderColumns == [ascending : BOOLEAN, nullslast : BOOLEAN, row : Values, ref : Values]

OrderingCalls == UNION {[1..n -> OrderColumns] : n \in 1..MaxCols}

Init ==
    /\ pc = "call"
    /\ out = None
    /\ \/ op = "is_nulls_last_default" /\ args \in PolicyCalls
       \/ op = "build_comparison" /\ args \in ComparisonCalls
       \/ op = "_might_be_nullable" /\ args \in NullableCalls
       \/ op = "ordering" /\ args \in OrderingCalls

Call_is_nulls_last_default ==
    /\ pc = "call" /\ op = "is_nulls_last_default"
    /\ out' = Some(is_nulls_last_default(args.dialect))
    /\ pc' = "done"
    /\ UNCHANGED <<op, args>>

Call_build_comparison ==
    /\ pc = "call" /\ op = "build_comparison"
    /\ out' = Some(build_comparison(args.column, args.value, args.dialect,
                                    args.nullslast, args.ascending))
    /\ pc' = "done"
    /\ UNCHANGED <<op, args>>

Call_might_be_nullable ==
    /\ pc = "call" /\ op = "_might_be_nullable"
    /\ out' = Some(_might_be_nullable(args.x))
    /\ pc' = "done"
    /\ UNCHANGED <<op, args>>

\* build_comparison for every column of a sort spec against the reference
\* row, with the column's resolved nulls-last flag given explicitly.
Call_ordering ==
    /\ pc = "call" /\ op = "ordering"
    /\ out' = Some([i \in DOMAIN args |->
                      build_comparison([id |-> i, proc |-> "absent"], args[i].ref,
                                       None, Some(args[i].nullslast),
                                       args[i].ascending)])
    /\ pc' = "done"
    /\ UNCHANGED <<op, args>>

Next ==
    \/ Call_is_nulls_last_default
    \/ Call_build_comparison
    \/ Call_might_be_nullable
    \/ Call_ordering

Spec == Init /\ [][Next]_vars

-----------------------------------------------------------------------------
(* Properties. *)

Done(o) == pc = "done" /\ op = o

KnownNames == {"postgresql", "oracle", "mysql", "mssql", "sqlite"}

\* a dialect object whose name the table does not hold
UnknownEngine(dialect) == dialect # None /\ dialect[1] \notin KnownNames

\* The pair built from the column and the pair built from the reference
\* value, whichever side each was returned on.
RowSideOf(o, ascending) == IF ascending THEN o.col ELSE o.val

TargetSideOf(o, ascending) == IF ascending THEN o.val ELSE o.col

(* ---- C1 ---- *)

\* the scanned row: column index -> value
OrderRow == [i \in DOMAIN args |-> args[i].row]

\* every column's columnSide pair, concatenated and evaluated on the row
ColumnTuple ==
    [k \in 1..(2 * Len(args)) |->
        EvalTerm(out[1][(k + 1) \div 2].col[2 - (k % 2)], OrderRow)]

\* every column's valueSide pair, concatenated and evaluated on the row
ValueTuple ==
    [k \in 1..(2 * Len(args)) |->
        EvalTerm(out[1][(k + 1) \div 2].val[2 - (k % 2)], OrderRow)]

\* s > t, lexicographically
TupleGreater(s, t) ==
    \E k \in 1..Len(s) : s[k] > t[k] /\ \A j \in 1..(k - 1) : s[j] = t[j]

\* a sorts strictly after b in an ascending column
AscAfter(a, b, nullslast) ==
    \/ a = None /\ b # None /\ nullslast
    \/ a # None /\ b = None /\ ~nullslast
    \/ a # None /\ b # None /\ a[1] > b[1]

\* a descending column is the reverse of the ascending order
ColumnAfter(c) ==
    IF c.ascending THEN AscAfter(c.row, c.ref, c.nullslast)
    ELSE AscAfter(c.ref, c.row, c.nullslast)

\* the row sorts strictly after the reference row in the sort spec's order
RowSortsAfter ==
    \E k \in DOMAIN args :
        /\ ColumnAfter(args[k])
        /\ \A j \in 1..(k - 1) : args[j].row = args[j].ref

RowEqualsReference == \A i \in DOMAIN args : args[i].row = args[i].ref

\* C1: for every sort spec, row and reference row, the concatenated
\* columnSide tuple is lexicographically greater than the concatenated
\* valueSide tuple exactly when the row sorts strictly after the reference
\* row in the mixed-direction, null-aware order, and the two tuples are equal
\* exactly when row and reference row agree on every sort column.
C1_UniformOperatorReproducesOrdering ==
    Done("ordering") =>
        /\ \A i \in DOMAIN args : out[1][i].err = "none"
        /\ TupleGreater(ColumnTuple, ValueTuple) <=> RowSortsAfter
        /\ (ColumnTuple = ValueTuple) <=> RowEqualsReference

\* two columns of opposite directions, equal in the first, a null row value
\* against a reference value equal to the placeholder in the second
C1_Witness ==
    /\ Done("ordering")
    /\ Len(args) = 2
    /\ args[1].ascending /\ ~args[2].ascending
    /\ args[1].row = args[1].ref /\ args[1].row = None
    /\ args[2].row = None /\ args[2].ref = Some(BlankValue)
    /\ ~args[2].nullslast
    /\ RowSortsAfter
    /\ TupleGreater(ColumnTuple, ValueTuple)

(* ---- C5 ---- *)

\* C5: for each of the five known engines is_nulls_last_default returns the
\* documented boolean (true for postgresql and oracle, false for mysql,
\* mssql and sqlite) and emits no diagnostic.
C5_KnownEnginesExact ==
    Done("is_nulls_last_default") /\ args.dialect # None
        /\ args.dialect[1] \in KnownNames =>
        /\ out[1].err = "none"
        /\ out[1].ret = Some(args.dialect[1] \in {"postgresql", "oracle"})
        /\ out[1].warns = 0

C5_Witness ==
    /\ Done("is_nulls_last_default")
    /\ args.dialect = Some("mysql")
    /\ out[1].ret = Some(FALSE)
    /\ out[1].warns = 0

(* ---- C9 ---- *)

\* the same call with the other direction
OtherDirection ==
    build_comparison(args.column, args.value, args.dialect, args.nullslast,
                     ~args.ascending)

\* C9: for a fixed column, reference value, engine and null placement, the
\* pairs returned with ascending=false are the pairs returned with
\* ascending=true exchanged: the columnSide of one is the valueSide of the
\* other, each pair and its discriminator ranks unchanged.
C9_DirectionSwapLaw ==
    Done("build_comparison") =>
        /\ OtherDirection.err = out[1].err
        /\ OtherDirection.col = out[1].val
        /\ OtherDirection.val = out[1].col
        /\ out[1].err = "none" =>
              /\ RowSideOf(out[1], args.ascending)[1].kind = "flag"
              /\ RowSideOf(out[1], args.ascending)[2].kind = "value"
              /\ TargetSideOf(out[1], args.ascending)[1].kind = "lit"

\* a descending call that returned: the reference value's pair is on the
\* column side
C9_Witness ==
    /\ Done("build_comparison")
    /\ ~args.ascending
    /\ out[1].err = "none"
    /\ out[1].col[1].kind = "lit"
    /\ out[1].val[1].kind = "flag"
    /\ out[1].col # out[1].val

(* ---- C2 ---- *)

TruthValues == {"True", "False"}

\* C2: _might_be_nullable never raises, and returns true whenever the
\* nullability metadata is unavailable or its inspection fails: no nullable
\* attribute, no bound property or an empty column list, or a read that
\* fails with any kind of error.
C2_NeverRaisesDefaultsNullable ==
    Done("_might_be_nullable") =>
        /\ out[1].err = "none"
        /\ (args.x.nullable \notin TruthValues \/ args.x.property \notin TruthValues)
              => out[1].ret = Some(TRUE)

(* ---- C3 ---- *)

\* C3: _might_be_nullable has no false negatives: when the declared nullable
\* attribute is true, or the bound property's first column is nullable, the
\* result is true; and it is false only when the metadata read says the
\* column cannot be null.
C3_NoFalseNegatives ==
    Done("_might_be_nullable") =>
        /\ (args.x.nullable = "True" \/ args.x.property = "True")
              => out[1].ret = Some(TRUE)
        /\ out[1].ret = Some(FALSE)
              => /\ "True" \notin {args.x.nullable, args.x.property}
                 /\ "False" \in {args.x.nullable, args.x.property}

(* ---- C4 ---- *)

\* C4: with the engine identifier absent (dialect=None) the lookup behaves as
\* for an unknown engine: is_nulls_last_default returns false with a warning
\* and does not raise, and build_comparison without an explicit nullslast
\* does not abort in the lookup and uses NULLS FIRST.
C4_AbsentEngineIsUnknownEngine ==
    /\ Done("is_nulls_last_default") /\ args.dialect = None =>
          /\ out[1].err = "none"
          /\ out[1].ret = Some(FALSE)
          /\ out[1].warns = 1
    /\ Done("build_comparison") /\ args.dialect = None /\ args.nullslast = None =>
          /\ out[1].err # "AttributeError"
          /\ out[1].warns = 1

(* ---- C6 ---- *)

\* the null rank is 0 and the non-null rank 1 in the pairs returned
NullRankIsZero ==
    /\ RowSideOf(out[1], args.ascending)[1].x = 0
    /\ RowSideOf(out[1], args.ascending)[1].y = 1

\* the claim about the lookup alone: unknown engine, false, one diagnostic
C6_Lookup ==
    Done("is_nulls_last_default") /\ UnknownEngine(args.dialect) =>
        /\ out[1].err = "none"
        /\ out[1].ret = Some(FALSE)
        /\ out[1].warns = 1

\* C6 as stated: for an engine that is present but not in the table the
\* lookup returns false with exactly one diagnostic, and build_comparison
\* without an explicit nullslast emits exactly one diagnostic, still returns
\* its two pairs, and uses 0 as the null rank.
C6_Original ==
    /\ C6_Lookup
    /\ Done("build_comparison") /\ UnknownEngine(args.dialect)
          /\ args.nullslast = None =>
          /\ out[1].warns = 1
          /\ out[1].err = "none"
          /\ Len(out[1].col) = 2 /\ Len(out[1].val) = 2
          /\ NullRankIsZero

\* C6, amended: for an engine that is present but not in the table the lookup
\* returns false with exactly one diagnostic; build_comparison without an
\* explicit nullslast emits exactly one diagnostic per call, and returns its
\* two pairs, with 0 as the null rank, unless the column's canonicalization
\* step rejects the reference value, in which case that error leaves the
\* call after the diagnostic.
C6_UnknownEngineOneDiagnostic ==
    /\ C6_Lookup
    /\ Done("build_comparison") /\ UnknownEngine(args.dialect)
          /\ args.nullslast = None =>
          LET p == ProcessBindParam(args.column.proc, args.value, args.dialect) IN
          /\ out[1].warns = 1
          /\ out[1].policy = 1
          /\ out[1].err = p.err
          /\ p.err = "none" =>
                /\ Len(out[1].col) = 2 /\ Len(out[1].val) = 2
                /\ NullRankIsZero
                /\ TargetSideOf(out[1], args.ascending)[1].x
                      = (IF p.v = None THEN 0 ELSE 1)
          /\ p.err # "none" => out[1].col = <<>> /\ out[1].val = <<>>

\* unknown engine, no explicit nullslast, null reference value: pairs
\* returned after one diagnostic, the null discriminator 0
C6_Witness ==
    /\ Done("build_comparison")
    /\ args.dialect = Some("unknownsql")
    /\ args.nullslast = None
    /\ args.value = None
    /\ out[1].err = "none"
    /\ out[1].warns = 1
    /\ TargetSideOf(out[1], args.ascending)[1].x = 0

(* ---- C7 ---- *)

\* the same call for engine d
ForEngine(d) ==
    build_comparison(args.column, args.value, d, args.nullslast, args.ascending)

\* the canonicalization step of the column gives the same outcome for every
\* engine (a column without a step does)
EngineFree(proc) ==
    \A v \in Values : \A d1, d2 \in Dialects :
        ProcessBindParam(proc, v, d1) = ProcessBindParam(proc, v, d2)

\* C7 as stated: with an explicit nullslast the engine identifier is not
\* used: the returned pairs are the same for every engine identifier, also
\* for columns with a canonicalization step, the policy is not consulted and
\* no diagnostic is emitted.
C7_Original ==
    Done("build_comparison") /\ args.nullslast # None =>
        /\ out[1].policy = 0
        /\ out[1].warns = 0
        /\ \A d \in Dialects :
              /\ ForEngine(d).err = out[1].err
              /\ ForEngine(d).col = out[1].col
              /\ ForEngine(d).val = out[1].val

\* C7, amended: with an explicit nullslast, it alone decides the null
\* placement for every engine identifier (known, unknown or absent): the
\* policy is not consulted, no diagnostic is emitted and the discriminator
\* ranks are those of the explicit nullslast.  The engine identifier is still
\* handed to the column's canonicalization step, so the returned pairs are
\* the same for every engine identifier when the column has no
\* canonicalization step or its step does not depend on the engine.
C7_ExplicitNullsLastDecidesPlacement ==
    Done("build_comparison") /\ args.nullslast # None =>
        /\ out[1].policy = 0
        /\ out[1].warns = 0
        /\ out[1].err # "AttributeError"
        /\ out[1].err = "none" =>
              /\ RowSideOf(out[1], args.ascending)[1].x
                    = (IF args.nullslast[1] THEN 1 ELSE 0)
              /\ RowSideOf(out[1], args.ascending)[1].y
                    = (IF args.nullslast[1] THEN 0 ELSE 1)
        /\ \A d \in Dialects :
              /\ ForEngine(d).policy = 0 /\ ForEngine(d).warns = 0
              /\ EngineFree(args.column.proc) =>
                    /\ ForEngine(d).err = out[1].err
                    /\ ForEngine(d).col = out[1].col
                    /\ ForEngine(d).val = out[1].val

\* explicit nulls-last on an engine whose default is nulls-first: the ranks
\* are those of the argument and nothing was looked up
C7_Witness ==
    /\ Done("build_comparison")
    /\ args.nullslast = Some(TRUE)
    /\ args.dialect = Some("mysql")
    /\ args.column.proc = "absent"
    /\ out[1].err = "none"
    /\ out[1].policy = 0
    /\ RowSideOf(out[1], args.ascending)[1].x = 1

(* ---- C8 ---- *)

\* the nulls-last flag the call works with: the explicit one, else the
\* engine's default
EffectiveNullsLast ==
    IF args.nullslast # None THEN args.nullslast[1]
    ELSE args.dialect \in {Some("postgresql"), Some("oracle")}

NullRank == IF EffectiveNullsLast THEN 1 ELSE 0

NonNullRank == IF EffectiveNullsLast THEN 0 ELSE 1

\* the reference value after the column's canonicalization step
Canonicalized == ProcessBindParam(args.column.proc, args.value, args.dialect).v

\* C8 as stated: when the reference value passed in is null the target-side
\* pair is [nullRank, placeholder], and when it is non-null the pair is
\* [nonNullRank, canonicalized reference value], for every engine, null
\* placement and column, columns with a canonicalization step included.
C8_Original ==
    Done("build_comparison") /\ out[1].err = "none" =>
        LET t == TargetSideOf(out[1], args.ascending) IN
        IF args.value = None
        THEN t = <<Lit(NullRank), Blank(args.column.id)>>
        ELSE /\ t[1] = Lit(NonNullRank)
             /\ Canonicalized # None => t[2] = Lit(Canonicalized[1])
             /\ t[2].kind = "lit"

\* C8, amended: the null test is made on the canonicalized reference value
\* (the raw value for a column without a canonicalization step): whenever
\* build_comparison returns, the target-side pair is [nullRank, placeholder]
\* if the canonicalized reference value is null and [nonNullRank,
\* canonicalized reference value] otherwise, nullRank being 1 if nulls-last
\* else 0, for every engine, null placement and column.
C8_TargetSideEncodesCanonicalizedValue ==
    Done("build_comparison") /\ out[1].err = "none" =>
        LET t == TargetSideOf(out[1], args.ascending) IN
        IF Canonicalized = None
        THEN t = <<Lit(NullRank), Blank(args.column.id)>>
        ELSE t = <<Lit(NonNullRank), Lit(Canonicalized[1])>>

\* a non-null reference value that the canonicalization step binds as null
\* is encoded as a null
C8_Witness ==
    /\ Done("build_comparison")
    /\ args.column.proc = "nullify"
    /\ args.value # None /\ Canonicalized = None
    /\ args.dialect = Some("postgresql") /\ args.nullslast = None
    /\ out[1].err = "none"
    /\ TargetSideOf(out[1], args.ascending) = <<Lit(1), Blank(args.column.id)>>

(* ---- C10 ---- *)

\* C10: if the column's canonicalization step rejects the reference value,
\* build_comparison returns no pairs and that same error leaves the call; if
\* the column has no canonicalization step the raw reference value is used
\* unchanged and no error arises.
C10_CanonicalizationErrors ==
    Done("build_comparison") =>
        LET p == ProcessBindParam(args.column.proc, args.value, args.dialect) IN
        /\ p.err # "none" =>
              /\ out[1].err = p.err
              /\ out[1].col = <<>> /\ out[1].val = <<>>
        /\ args.column.proc = "absent" =>
              /\ out[1].err = "none"
              /\ TargetSideOf(out[1], args.ascending)[2]
                    = (IF args.value = None THEN Blank(args.column.id)
                       ELSE Lit(args.value[1]))

\* the same with the calls left out in which the lookup of the engine's
\* default raised before the canonicalization step was reached
C10_WhenLookupReturns ==
    Done("build_comparison")
        /\ ResolveNullsLast(args.dialect, args.nullslast).err = "none"
        => C10_CanonicalizationErrors

====
